---- MODULE Spec2Model ----
(***************************************************************************)
(* TrafficLight / MessageQueue<TrafficLightPhase> of the concurrent        *)
(* traffic simulation: one message queue (vector + mutex + condition       *)
(* variable), the cycling threads started by simulate(), and the threads   *)
(* that call waitForGreen().                                               *)
(*                                                                         *)
(* Time is kept relative: elapsed[t] is system_clock::now() - lastUpdate   *)
(* of cycling thread t in milliseconds.  A sleep_for(d) is a step during   *)
(* which d or more milliseconds pass (sleep_for promises "at least d").    *)
(* Intervals longer than MaxElapsed are recorded as MaxElapsed.            *)
(***************************************************************************)
EXTENDS Integers, Sequences, FiniteSets, TLC

VARIABLES
    currentPhase,   \* TrafficLight::_currentPhase
    queue,          \* MessageQueue::_queue (vector, back = last index)
    mutex,          \* MessageQueue::_mutex: the thread holding it, or NoThread
    cond,           \* MessageQueue::_cond: threads blocked in wait()
    pc,             \* position of every thread
    cycle_duration, \* per cycling thread: local cycle_duration
    elapsed,        \* per cycling thread: now() - lastUpdate, saturating
    seen,           \* per cycling thread: the value read by `_currentPhase == green`
    msg,            \* per cycling thread: the argument of its send()
    observed,       \* the value the last getCurrentPhase() call returned
    qid,            \* history: push index of every queued element
    pushed,         \* history: values appended to the queue, in order
    popped,         \* history: records of the elements removed from the queue
    phaseHist,      \* history: values written to _currentPhase by the toggles
    sinceFlip,      \* history: time since the last toggle (or thread start)
    blockedAt,      \* history: per waiter, Len(pushed) when its receive() last blocked
    returns         \* history: per waiter, completed waitForGreen calls

vars == <<currentPhase, queue, mutex, cond, pc, cycle_duration, elapsed,
          seen, msg, observed, qid, pushed, popped, phaseHist, sinceFlip, blockedAt,
          returns>>

----------------------------------------------------------------------------
\* Bounds of the model
MaxElapsed == 8     \* time intervals saturate here
MaxFlips == 3       \* toggles explored per run

\* Program constants
MinCycle == 4       \* uniform_int_distribution<> distr(4, 6)
MaxCycle == 6
PollTick == 1       \* sleep_for(milliseconds(1)) in cycleThroughPhases
WaitSleep == 10     \* sleep_for(milliseconds(10)) in waitForGreen
SendDelay == 500    \* sleep_for(milliseconds(500)) in send

red == "red"
green == "green"
TrafficLightPhase == {red, green}

Cyclers == {"cyc1", "cyc2"}      \* threads simulate() can start
Waiters == {"veh1", "veh2", "veh3"}   \* threads that can call waitForGreen()
TwoWaiters == {"veh1", "veh2"}
CyclerOrder == <<"cyc1", "cyc2">>
Threads == Cyclers \cup Waiters
NoThread == "none"
NoPhase == "none"                    \* no getCurrentPhase() call has returned yet
NotBlocked == 0 - 1

Min(a, b) == IF a < b THEN a ELSE b
Sat(x) == Min(x, MaxElapsed)

----------------------------------------------------------------------------
\* std::vector operations used by the queue
Back(q) == q[Len(q)]
PopBack(q) == SubSeq(q, 1, Len(q) - 1)
EmplaceBack(q, v) == Append(q, v)

\* the predicate of _cond.wait(lck, [this] { return !_queue.empty(); })
WaitPredAlways(q) == TRUE            \* faulty variant: wait() without its predicate
WaitPred(q) == q # <<>>

\* the element receive() takes and what it leaves
Taken(q) == Back(q)
RestKeepsBack(q) == q                \* faulty variant: pop_back() left out
Rest(q) == PopBack(q)

\* the toggle of cycleThroughPhases, on the value its comparison read
ToggledOneWay(p) == green            \* faulty variant: both branches assign green
Toggled(p) == IF p = green THEN red ELSE green

\* d milliseconds pass
Advance(d) ==
    /\ elapsed' = [t \in Cyclers |->
                      IF pc[t] = "off" THEN elapsed[t] ELSE Sat(elapsed[t] + d)]
    /\ sinceFlip' = Sat(sinceFlip + d)

NoTime == UNCHANGED <<elapsed, sinceFlip>>
Hist == <<qid, pushed, popped, phaseHist, blockedAt, returns>>
Locals == <<cycle_duration, seen, msg, observed>>

----------------------------------------------------------------------------
Init ==
    /\ currentPhase = red
    /\ queue = <<>>
    /\ mutex = NoThread
    /\ cond = {}
    /\ pc = [t \in Threads |-> IF t \in Cyclers THEN "off" ELSE "idle"]
    /\ cycle_duration = [t \in Cyclers |-> MinCycle]
    /\ elapsed = [t \in Cyclers |-> 0]
    /\ seen = [t \in Cyclers |-> red]
    /\ msg = [t \in Cyclers |-> red]
    /\ observed = NoPhase
    /\ qid = <<>>
    /\ pushed = <<>>
    /\ popped = <<>>
    /\ phaseHist = <<>>
    /\ sinceFlip = 0
    /\ blockedAt = [w \in Waiters |-> NotBlocked]
    /\ returns = [w \in Waiters |-> 0]

----------------------------------------------------------------------------
\* the base class's `threads` vector: the cycling threads launched so far
Started == {t \in Cyclers : pc[t] # "off"}

\* TrafficLight::simulate: starts one more thread running cycleThroughPhases;
\* the thread draws cycle_duration and takes lastUpdate = now().
Simulate(t) ==
    /\ pc[t] = "off"
    /\ t = CyclerOrder[Cardinality(Started) + 1]   \* threads.emplace_back
    /\ \E d \in MinCycle..MaxCycle :
          cycle_duration' = [cycle_duration EXCEPT ![t] = d]
    /\ elapsed' = [elapsed EXCEPT ![t] = 0]
    /\ sinceFlip' = 0
    /\ pc' = [pc EXCEPT ![t] = "c_sleep"]
    /\ UNCHANGED <<currentPhase, queue, mutex, cond, seen, msg, observed, Hist>>

\* the times a sleep_for(d) can take, as far as the model tells them apart
SleepTimes(d) == {Sat(d)} \cup {x \in 0..MaxElapsed : x >= d}

\* cycleThroughPhases: sleep_for(1 ms)
CycleSleep(t) ==
    /\ pc[t] = "c_sleep"
    /\ \E d \in SleepTimes(PollTick) : Advance(d)
    /\ pc' = [pc EXCEPT ![t] = "c_if"]
    /\ UNCHANGED <<currentPhase, queue, mutex, cond, Locals, Hist>>

\* timeSinceLastUpdate = duration_cast<milliseconds>(now() - lastUpdate).count()
timeSinceLastUpdate(t) == elapsed[t]

\* if (timeSinceLastUpdate >= cycle_duration)
DurationReached(t) == timeSinceLastUpdate(t) >= cycle_duration[t]

CycleIf(t) ==
    /\ pc[t] = "c_if"
    /\ IF DurationReached(t)
         THEN /\ Len(phaseHist) < MaxFlips
              /\ pc' = [pc EXCEPT ![t] = "c_read"]
         ELSE pc' = [pc EXCEPT ![t] = "c_reset"]
    /\ NoTime
    /\ UNCHANGED <<currentPhase, queue, mutex, cond, Locals, Hist>>

\* the read of `_currentPhase == green`
CycleRead(t) ==
    /\ pc[t] = "c_read"
    /\ seen' = [seen EXCEPT ![t] = currentPhase]
    /\ pc' = [pc EXCEPT ![t] = "c_write"]
    /\ NoTime
    /\ UNCHANGED <<currentPhase, queue, mutex, cond, cycle_duration, msg, observed,
                   Hist>>

\* _currentPhase = red / _currentPhase = green
CycleWrite(t) ==
    /\ pc[t] = "c_write"
    /\ currentPhase' = Toggled(seen[t])
    /\ phaseHist' = Append(phaseHist, currentPhase')
    /\ sinceFlip' = 0
    /\ pc' = [pc EXCEPT ![t] = "c_async"]
    /\ UNCHANGED <<queue, mutex, cond, Locals, elapsed, qid, pushed, popped,
                   blockedAt, returns>>

\* std::async(..., &MessageQueue::send, _msg_queue, std::move(_currentPhase)):
\* the argument is copied from the field when the call is made
SendArgStale(t) == seen[t]           \* faulty variant: sends the phase read before the toggle
SendArg(t) == currentPhase

CycleAsync(t) ==
    /\ pc[t] = "c_async"
    /\ msg' = [msg EXCEPT ![t] = SendArg(t)]
    /\ pc' = [pc EXCEPT ![t] = "s_lock"]
    /\ NoTime
    /\ UNCHANGED <<currentPhase, queue, mutex, cond, cycle_duration, seen, observed,
                   Hist>>

\* send: std::lock_guard<std::mutex> lck(_mutex)
SendLock(t) ==
    /\ pc[t] = "s_lock"
    /\ mutex = NoThread
    /\ mutex' = t
    /\ pc' = [pc EXCEPT ![t] = "s_emplace"]
    /\ NoTime
    /\ UNCHANGED <<currentPhase, queue, cond, Locals, Hist>>

\* send: _queue.emplace_back(std::move(msg))
SendEmplace(t) ==
    /\ pc[t] = "s_emplace"
    /\ queue' = EmplaceBack(queue, msg[t])
    /\ qid' = Append(qid, Len(pushed) + 1)
    /\ pushed' = Append(pushed, msg[t])
    /\ pc' = [pc EXCEPT ![t] = "s_notify"]
    /\ NoTime
    /\ UNCHANGED <<currentPhase, mutex, cond, Locals, popped, phaseHist,
                   blockedAt, returns>>

\* send: _cond.notify_one() wakes one of the threads blocked in wait(), if any
NotifiedNobody(c) == {c}             \* faulty variant: notify_one() left out
Notified(c) == IF c = {} THEN {c} ELSE {c \ {w} : w \in c}

\* faulty variant: the lock is released right after the notification
SendNotifyUnlocks(t) ==
    /\ pc[t] = "s_notify"
    /\ cond' \in Notified(cond)
    /\ pc' = [p \in Threads |->
                IF p = t THEN "s_sleep"
                ELSE IF p \in cond /\ p \notin cond' THEN "r_relock"
                ELSE pc[p]]
    /\ mutex' = NoThread
    /\ NoTime
    /\ UNCHANGED <<currentPhase, queue, Locals, Hist>>

SendNotify(t) ==
    /\ pc[t] = "s_notify"
    /\ cond' \in Notified(cond)
    /\ pc' = [p \in Threads |->
                IF p = t THEN "s_sleep"
                ELSE IF p \in cond /\ p \notin cond' THEN "r_relock"
                ELSE pc[p]]
    /\ NoTime
    /\ UNCHANGED <<currentPhase, queue, mutex, Locals, Hist>>

\* send: sleep_for(500 ms) with the lock still held; then send returns, the
\* lock_guard releases and update_phase_ftr.wait() returns
SendSleep(t) ==
    /\ pc[t] = "s_sleep"
    /\ mutex = t
    /\ \E d \in SleepTimes(SendDelay) : Advance(d)
    /\ mutex' = NoThread
    /\ pc' = [pc EXCEPT ![t] = "c_reset"]
    /\ UNCHANGED <<currentPhase, queue, cond, Locals, Hist>>

\* lastUpdate = now(), at the end of every iteration
CycleReset(t) ==
    /\ pc[t] = "c_reset"
    /\ elapsed' = [elapsed EXCEPT ![t] = 0]
    /\ pc' = [pc EXCEPT ![t] = "c_sleep"]
    /\ UNCHANGED <<currentPhase, queue, mutex, cond, Locals, sinceFlip, Hist>>

----------------------------------------------------------------------------
\* a thread calls waitForGreen()
WaitForGreen(w) ==
    /\ pc[w] = "idle"
    /\ pc' = [pc EXCEPT ![w] = "w_sleep"]
    /\ NoTime
    /\ UNCHANGED <<currentPhase, queue, mutex, cond, Locals, Hist>>

\* waitForGreen: sleep_for(10 ms), then the call of receive()
WaitSleepStep(w) ==
    /\ pc[w] = "w_sleep"
    /\ \E d \in SleepTimes(WaitSleep) : Advance(d)
    /\ blockedAt' = [blockedAt EXCEPT ![w] = NotBlocked]
    /\ pc' = [pc EXCEPT ![w] = "r_lock"]
    /\ UNCHANGED <<currentPhase, queue, mutex, cond, Locals, qid, pushed, popped,
                   phaseHist, returns>>

\* faulty variant: the lock is taken without waiting for it to be free
ReceiveLockUnguarded(w) ==
    /\ pc[w] \in {"r_lock", "r_relock"}
    /\ mutex' = w
    /\ pc' = [pc EXCEPT ![w] = "r_wait"]
    /\ NoTime
    /\ UNCHANGED <<currentPhase, queue, cond, Locals, Hist>>

\* receive: std::unique_lock<std::mutex> lck(_mutex), and the re-lock inside wait()
ReceiveLock(w) ==
    /\ pc[w] \in {"r_lock", "r_relock"}
    /\ mutex = NoThread
    /\ mutex' = w
    /\ pc' = [pc EXCEPT ![w] = "r_wait"]
    /\ NoTime
    /\ UNCHANGED <<currentPhase, queue, cond, Locals, Hist>>

\* faulty variant: the thread blocks without releasing the lock
ReceiveWaitKeepsLock(w) ==
    /\ pc[w] = "r_wait"
    /\ IF WaitPred(queue)
         THEN /\ pc' = [pc EXCEPT ![w] = "r_pop"]
              /\ UNCHANGED <<mutex, cond, blockedAt>>
         ELSE /\ UNCHANGED mutex
              /\ cond' = cond \cup {w}
              /\ blockedAt' = [blockedAt EXCEPT ![w] = Len(pushed)]
              /\ pc' = [pc EXCEPT ![w] = "r_blocked"]
    /\ NoTime
    /\ UNCHANGED <<currentPhase, queue, Locals, qid, pushed, popped, phaseHist,
                   returns>>

\* receive: _cond.wait(lck, pred): with the lock held, leave when pred holds,
\* otherwise release the lock and block, atomically
ReceiveWait(w) ==
    /\ pc[w] = "r_wait"
    /\ IF WaitPred(queue)
         THEN /\ pc' = [pc EXCEPT ![w] = "r_pop"]
              /\ UNCHANGED <<mutex, cond, blockedAt>>
         ELSE /\ mutex' = NoThread
              /\ cond' = cond \cup {w}
              /\ blockedAt' = [blockedAt EXCEPT ![w] = Len(pushed)]
              /\ pc' = [pc EXCEPT ![w] = "r_blocked"]
    /\ NoTime
    /\ UNCHANGED <<currentPhase, queue, Locals, qid, pushed, popped, phaseHist,
                   returns>>

\* a spurious wake-up of a thread blocked in wait()
SpuriousWake(w) ==
    /\ pc[w] = "r_blocked"
    /\ w \in cond
    /\ cond' = cond \ {w}
    /\ pc' = [pc EXCEPT ![w] = "r_relock"]
    /\ NoTime
    /\ UNCHANGED <<currentPhase, queue, mutex, Locals, Hist>>

\* waitForGreen: if (msg == green) return
IsGreenWrongPhase(m) == m = red      \* faulty variant: compares with the other phase
IsGreen(m) == m = green

\* receive: T msg = std::move(_queue.back()); _queue.pop_back(); return msg
\* (the unique_lock releases); waitForGreen returns on green, loops on red
ReceivePop(w) ==
    /\ pc[w] = "r_pop"
    /\ mutex = w
    /\ queue' = Rest(queue)
    /\ popped' = Append(popped, [by |-> w, val |-> Taken(queue), id |-> Taken(qid)])
    /\ qid' = Rest(qid)
    /\ mutex' = NoThread
    /\ IF IsGreen(Taken(queue))
         THEN /\ pc' = [pc EXCEPT ![w] = "idle"]
              /\ returns' = [returns EXCEPT ![w] = @ + 1]
         ELSE /\ pc' = [pc EXCEPT ![w] = "w_sleep"]
              /\ UNCHANGED returns
    /\ NoTime
    /\ UNCHANGED <<currentPhase, cond, Locals, pushed, phaseHist, blockedAt>>

----------------------------------------------------------------------------
\* faulty variant: the read waits for the queue's mutex to be free
GetCurrentPhaseLocked ==
    /\ mutex = NoThread
    /\ observed' = currentPhase
    /\ NoTime
    /\ UNCHANGED <<currentPhase, queue, mutex, cond, pc, cycle_duration, seen, msg,
                   Hist>>

\* TrafficLight::getCurrentPhase, called from any other thread:
\* return _currentPhase, an unsynchronised read that takes no lock.  A read
\* racing with the toggle's write yields the value before or after it, which
\* is the read taken before or after CycleWrite.
GetCurrentPhase ==
    /\ observed' = currentPhase
    /\ NoTime
    /\ UNCHANGED <<currentPhase, queue, mutex, cond, pc, cycle_duration, seen, msg,
                   Hist>>

----------------------------------------------------------------------------
\* the steps of the cycling threads C
CyclerSteps(C) ==
    \/ \E t \in C : Simulate(t)
    \/ \E t \in C : CycleSleep(t)
    \/ \E t \in C : CycleIf(t)
    \/ \E t \in C : CycleRead(t)
    \/ \E t \in C : CycleWrite(t)
    \/ \E t \in C : CycleAsync(t)
    \/ \E t \in C : SendLock(t)
    \/ \E t \in C : SendEmplace(t)
    \/ \E t \in C : SendNotify(t)
    \/ \E t \in C : SendSleep(t)
    \/ \E t \in C : CycleReset(t)

\* the steps of the threads W that call waitForGreen()
WaiterSteps(W) ==
    \/ \E w \in W : WaitForGreen(w)
    \/ \E w \in W : WaitSleepStep(w)
    \/ \E w \in W : ReceiveLock(w)
    \/ \E w \in W : ReceiveWait(w)
    \/ \E w \in W : SpuriousWake(w)
    \/ \E w \in W : ReceivePop(w)

\* simulate() called once, two threads calling waitForGreen()
Next == CyclerSteps({"cyc1"}) \/ WaiterSteps(TwoWaiters)

Spec == Init /\ [][Next]_vars

\* simulate() called twice on the same TrafficLight
NextTwice == CyclerSteps(Cyclers)

SpecTwice == Init /\ [][NextTwice]_vars

\* the test set-up "after shutdown": no cycling thread, the queue pre-seeded
\* with the single value Green
InitShutdown ==
    /\ currentPhase = red
    /\ queue = <<green>>
    /\ mutex = NoThread
    /\ cond = {}
    /\ pc = [t \in Threads |-> IF t \in Cyclers THEN "off" ELSE "idle"]
    /\ cycle_duration = [t \in Cyclers |-> MinCycle]
    /\ elapsed = [t \in Cyclers |-> 0]
    /\ seen = [t \in Cyclers |-> red]
    /\ msg = [t \in Cyclers |-> red]
    /\ observed = NoPhase
    /\ qid = <<1>>
    /\ pushed = <<green>>
    /\ popped = <<>>
    /\ phaseHist = <<>>
    /\ sinceFlip = 0
    /\ blockedAt = [w \in Waiters |-> NotBlocked]
    /\ returns = [w \in Waiters |-> 0]

NextShutdown == WaiterSteps(Waiters)

SpecShutdown == InitShutdown /\ [][NextShutdown]_vars

\* one cycling thread, one waiting thread and a thread polling getCurrentPhase
NextObserve ==
    \/ CyclerSteps({"cyc1"})
    \/ WaiterSteps({"veh1"})
    \/ GetCurrentPhase

SpecObserve == Init /\ [][NextObserve]_vars

\* one cycling thread and one waiting thread, both scheduled fairly: a thread
\* that can run keeps running, and a thread that finds the mutex free again
\* and again gets it; a call of waitForGreen and a spurious wake-up are never
\* bound to happen
NextLive == CyclerSteps({"cyc1"}) \/ WaiterSteps({"veh1"})

Fairness ==
    /\ WF_vars(CyclerSteps({"cyc1"}))
    /\ WF_vars(WaitSleepStep("veh1"))
    /\ SF_vars(ReceiveLock("veh1"))
    /\ WF_vars(ReceiveWait("veh1"))
    /\ WF_vars(ReceivePop("veh1"))

SpecLive == Init /\ [][NextLive]_vars /\ Fairness

\* The clock as a promptly scheduled cycling thread reads it: every
\* sleep_for(1 ms) of the loop returns after one polling tick and nothing else
\* of an iteration takes measurable time, so timeSinceLastUpdate grows by
\* PollTick in the sleep, is reset with lastUpdate, and is otherwise unchanged.
PromptClock ==
    \A t \in Cyclers :
        pc[t] # "off" =>
            elapsed'[t] = IF pc[t] = "c_sleep" /\ pc'[t] = "c_if"
                             THEN Sat(elapsed[t] + PollTick)
                          ELSE IF pc[t] = "c_reset" /\ pc'[t] = "c_sleep"
                             THEN 0
                          ELSE elapsed[t]

\* one cycling thread and one waiting thread under that clock, scheduled fairly
NextPrompt == NextLive /\ PromptClock

FairnessPrompt ==
    /\ WF_vars(CyclerSteps({"cyc1"}) /\ PromptClock)
    /\ WF_vars(WaitSleepStep("veh1") /\ PromptClock)
    /\ SF_vars(ReceiveLock("veh1") /\ PromptClock)
    /\ WF_vars(ReceiveWait("veh1") /\ PromptClock)
    /\ WF_vars(ReceivePop("veh1") /\ PromptClock)

SpecPrompt == Init /\ [][NextPrompt]_vars /\ FairnessPrompt

----------------------------------------------------------------------------
\* History helpers
PopsBy(w) == {i \in DOMAIN popped : popped[i].by = w}
GreenPopsBy(w) == {i \in PopsBy(w) : popped[i].val = green}
Alternating(h) == \A i \in DOMAIN h : h[i] = (IF i % 2 = 1 THEN green ELSE red)
IsPrefix(a, b) == Len(a) <= Len(b) /\ a = SubSeq(b, 1, Len(a))

\* C1: FIFO delivery.  When a single consumer has done all the pops, the k-th
\* pop returned the k-th pushed element (each pop takes the oldest element).
C1_FifoDelivery ==
    \A w \in Waiters :
        PopsBy(w) = DOMAIN popped => \A i \in DOMAIN popped : popped[i].id = i

\* C2: waitForGreen safety.  A thread has returned from waitForGreen at most as
\* often as it popped Green, and every popped Green was pushed by the cycling
\* thread after it had flipped the phase to Green.
C2_WaitForGreenSafety ==
    \A w \in Waiters :
        /\ returns[w] <= Cardinality(GreenPopsBy(w))
        /\ \A i \in GreenPopsBy(w) :
              /\ popped[i].id <= Len(pushed) /\ pushed[popped[i].id] = green
              /\ popped[i].id <= Len(phaseHist) /\ phaseHist[popped[i].id] = green

C2_Witness == \E w \in Waiters : returns[w] = 1

\* C4: competing consumers receive distinct elements.  No pushed element is
\* popped twice, none is lost: the popped elements and the queued ones are
\* exactly the pushed ones, and pushes = pops + queue length.
C4_DistinctElements ==
    /\ \A i, j \in DOMAIN popped : popped[i].id = popped[j].id => i = j
    /\ \A i \in DOMAIN popped : \A k \in DOMAIN qid : popped[i].id # qid[k]
    /\ \A i \in DOMAIN popped :
          popped[i].id \in DOMAIN pushed /\ pushed[popped[i].id] = popped[i].val
    /\ Len(pushed) = Len(popped) + Len(queue)

\* two elements were queued for two consumers blocked since before the first
\* push, and each of them received one
C4_Witness ==
    /\ Len(popped) = 2
    /\ popped[1].by # popped[2].by
    /\ popped[1].id = 2 /\ popped[2].id = 1
    /\ \A w \in TwoWaiters : blockedAt[w] = 0

\* C5: phase alternation.  With one cycling thread the values written to the
\* phase field are Green, Red, Green, ... and the field holds the last one
\* (Red before the first toggle).
C5_PhaseAlternation ==
    /\ Alternating(phaseHist)
    /\ currentPhase = (IF Len(phaseHist) % 2 = 1 THEN green ELSE red)

C5_Witness == Len(phaseHist) >= 3

C3_NoLostWakeup ==
    (pc["veh1"] \in {"r_blocked", "r_relock"} /\ queue # <<>>)
        ~> (pc["veh1"] \in {"idle", "w_sleep"})

\* the consumer's receive() blocked and then returned an element pushed later
C3_Witness ==
    /\ pc["veh1"] \in {"idle", "w_sleep"}
    /\ blockedAt["veh1"] # NotBlocked
    /\ popped # <<>>
    /\ popped[Len(popped)].id > blockedAt["veh1"]

\* C7: cycle duration bound.  At every toggle the time since the previous
\* toggle (or since the thread started) is at least cycle_duration, which is
\* in 4..6, and at most one polling tick more: an iteration of the loop
\* declines to toggle only while less than cycle_duration has passed.
C7_CycleDurationBound ==
    [][\A t \in Cyclers :
         /\ pc[t] = "c_write" /\ pc'[t] = "c_async" =>
               /\ cycle_duration[t] \in MinCycle..MaxCycle
               /\ sinceFlip >= cycle_duration[t]
         /\ pc[t] = "c_if" /\ pc'[t] = "c_reset" =>
               sinceFlip < cycle_duration[t]]_vars

\* C8: single cycling task.  After any sequence of simulate() calls at most
\* one thread runs cycleThroughPhases for the light.
C8_SingleCyclingTask == Cardinality(Started) <= 1

\* C9 as stated: after shutdown, with the queue pre-seeded with Green, every
\* waitForGreen call returns without a further push, so none ever blocks.
C9_EveryCallReturns == \A w \in Waiters : pc[w] # "r_blocked"

\* C9 as amended: only the call that takes the seeded Green returns; a call
\* blocks only once that Green has been taken, and then never returns.
C9_OnlySeededGreenReturns ==
    /\ Len(popped) + Len(queue) = 1
    /\ \A w \in Waiters : returns[w] = Cardinality(PopsBy(w))
    /\ \A w \in Waiters : pc[w] = "r_blocked" => queue = <<>>

\* a thread's first call returned and its second call is blocked
C9_Witness == \E w \in Waiters : returns[w] = 1 /\ pc[w] = "r_blocked"

\* C10: pop blocks on an empty queue.  receive() reaches its removal only
\* with a non-empty queue, and a receive() that blocked when k elements had
\* been pushed (all of them consumed) returns an element pushed after them.
C10_PopBlocksOnEmpty ==
    /\ \A w \in Waiters : pc[w] = "r_pop" => queue # <<>>
    /\ \A w \in Waiters :
          pc[w] = "r_pop" /\ blockedAt[w] # NotBlocked => Taken(qid) > blockedAt[w]

\* the third pop, issued after two pushes were consumed, returned the third push
C10_Witness ==
    \E w \in Waiters : pc[w] = "r_pop" /\ blockedAt[w] = 2 /\ Taken(qid) = 3

\* C11: starvation under competing consumers.  A Green is consumed by the one
\* thread that pops it: a thread that completed two waitForGreen calls took
\* two Greens, a thread that completed none took none, and the waiters never
\* returned more often than Greens were pushed.  The state in which one
\* thread has consumed two Greens while the other, waiting since before the
\* first push, has not returned is reachable (C11_Witness).
C11_CompetingConsumers ==
    /\ \A a, b \in Waiters :
          returns[a] >= 2 /\ returns[b] = 0 =>
             Cardinality(GreenPopsBy(a)) >= 2 /\ GreenPopsBy(b) = {}
    /\ returns["veh1"] + returns["veh2"] + returns["veh3"]
          <= Cardinality({k \in DOMAIN pushed : pushed[k] = green})

C11_Witness ==
    \E a, b \in TwoWaiters :
        /\ a # b
        /\ returns[a] = 2 /\ Cardinality(GreenPopsBy(a)) = 2
        /\ returns[b] = 0 /\ PopsBy(b) = {}
        /\ pc[b] \in {"r_blocked", "r_relock"} /\ blockedAt[b] = 0

\* the positions between acquiring and releasing _mutex, in send and in receive
InCritical(t) == pc[t] \in {"s_emplace", "s_notify", "s_sleep", "r_wait", "r_pop"}

LockState ==
    /\ Cardinality({t \in Threads : InCritical(t)}) <= 1
    /\ \A t \in Threads : InCritical(t) <=> mutex = t

\* C12: lock discipline.  In every state at most one thread is between
\* acquiring and releasing the mutex and it is the holder; every step that
\* changes the queue (emplace_back in send, pop_back in receive) is taken by
\* the thread holding the mutex, at its emplace or pop position, while no
\* other thread is inside send or receive's locked part.
C12_LockDiscipline ==
    [][ /\ LockState
        /\ LockState'
        /\ queue' # queue =>
              /\ mutex \in Threads
              /\ pc[mutex] \in {"s_emplace", "r_pop"}
              /\ pc'[mutex] # pc[mutex]
              /\ \A u \in Threads \ {mutex} : ~InCritical(u) /\ pc'[u] = pc[u]
      ]_vars

C12_Witness ==
    /\ mutex = "cyc1" /\ pc["cyc1"] = "s_emplace"
    /\ \E w \in TwoWaiters : pc[w] \in {"r_lock", "r_relock"}
    /\ popped # <<>>

\* C13: getCurrentPhase is non-blocking and free of side effects.  In every
\* state (the mutex held by another thread, send inside its delay, a thread
\* blocked in receive) a getCurrentPhase step is possible that returns the
\* value stored in _currentPhase and leaves the phase, the queue, the lock,
\* the condition variable and every thread's position and locals unchanged;
\* and the value returned last is a phase.
C13_GetCurrentPhaseFrame ==
    /\ ENABLED ( /\ GetCurrentPhase
                 /\ observed' = currentPhase
                 /\ UNCHANGED <<currentPhase, queue, mutex, cond, pc,
                                cycle_duration, elapsed, seen, msg, sinceFlip,
                                Hist>> )
    /\ observed \in TrafficLightPhase \cup {NoPhase}

C13_Witness ==
    /\ observed = green /\ currentPhase = green
    /\ pc["cyc1"] = "s_sleep" /\ mutex = "cyc1"
    /\ pc["veh1"] \in {"r_blocked", "r_relock"}

\* C14: bounded queue memory.  The queue never holds more than one phase
\* value, whatever the toggles published and the pops made so far.
C14_SingleSlot == Len(queue) <= 1

\* C15: elapsed-time baseline.  An iteration of the cycling loop that compared
\* a time below cycle_duration, and so did not toggle, leaves lastUpdate as
\* it was: its step from the end of the loop body back to the sleep does not
\* change the elapsed time, which goes on accumulating across iterations.
C15_BaselineKeptWithoutFlip ==
    [][ \A t \in Cyclers :
           ( /\ pc[t] = "c_reset" /\ pc'[t] = "c_sleep"
             /\ timeSinceLastUpdate(t) < cycle_duration[t] )
           => elapsed'[t] = elapsed[t]
      ]_vars

\* C16: the signal never stops cycling.  Once simulate has been called, with
\* fair scheduling and the clock advancing by one polling tick per loop
\* iteration, the cycling thread toggles the phase, and a thread blocked in
\* waitForGreen eventually returns.
C16_NeverStopsCycling ==
    /\ (pc["cyc1"] # "off") ~> (phaseHist # <<>>)
    /\ (pc["cyc1"] # "off" /\ pc["veh1"] = "r_blocked") ~> (returns["veh1"] > 0)

\* C17: what a waitForGreen call consumes.  A thread removes elements only at
\* its pop position; each pop removes exactly the one element it returns;
\* after a popped Red the call goes on (sleep, then receive again), after the
\* first popped Green it returns and the thread pops nothing until it calls
\* again; no step of a waiting thread pushes an element or writes
\* _currentPhase.
C17_WaitForGreenConsumption ==
    [][ \A w \in TwoWaiters :
          /\ pc[w] # "r_pop" => /\ PopsBy(w)' = PopsBy(w)
                                /\ returns'[w] = returns[w]
          /\ pc'[w] # pc[w] => currentPhase' = currentPhase /\ pushed' = pushed
          /\ (pc[w] = "r_pop" /\ pc'[w] # "r_pop") =>
                /\ Len(popped') = Len(popped) + 1
                /\ Len(queue') = Len(queue) - 1
                /\ LET r == popped'[Len(popped')] IN
                     /\ r.by = w
                     /\ r.id \notin {qid'[k] : k \in DOMAIN qid'}
                     /\ r.val = green => /\ pc'[w] = "idle"
                                         /\ returns'[w] = returns[w] + 1
                     /\ r.val = red => /\ pc'[w] = "w_sleep"
                                       /\ returns'[w] = returns[w]
      ]_vars

C17_Witness ==
    \E w \in TwoWaiters :
        /\ pc[w] = "idle" /\ returns[w] = 1
        /\ \E i, j \in PopsBy(w) :
              i < j /\ popped[i].val = red /\ popped[j].val = green

\* C18: waiting consumers never block the producer.  A thread blocked in
\* receive's wait() does not hold the mutex; when every consumer is blocked
\* there, a send waiting for the lock finds it free; a send waiting for the
\* lock can take it or its holder is a consumer that can take its next step
\* and release it; and a send that holds the lock can always take its next
\* step, up to its return.
C18_ProducerNeverBlocked ==
    /\ \A w \in Waiters : pc[w] = "r_blocked" => mutex # w
    /\ pc["cyc1"] = "s_lock" =>
          /\ (\A w \in TwoWaiters : pc[w] = "r_blocked") => mutex = NoThread
          /\ \/ ENABLED SendLock("cyc1")
             \/ \E w \in TwoWaiters :
                   /\ mutex = w
                   /\ ENABLED (ReceiveWait(w) \/ ReceivePop(w))
    /\ pc["cyc1"] \in {"s_emplace", "s_notify", "s_sleep"} =>
          ENABLED CyclerSteps({"cyc1"})

C18_Witness ==
    /\ \A w \in TwoWaiters : pc[w] = "r_blocked"
    /\ pc["cyc1"] = "s_emplace" /\ mutex = "cyc1"

\* C19: send holds the mutex from before the append until its delay is over.
\* The sending thread holds the mutex at its emplace position and from the
\* append to the end of the 500 ms sleep; in that span no step removes an
\* element, no consumer (notified or not) gets the lock, the queue keeps the
\* appended value at its back, and _currentPhase is not toggled.
C19_LockHeldThroughDelay ==
    [][ /\ pc["cyc1"] = "s_emplace" => mutex = "cyc1"
        /\ pc["cyc1"] \in {"s_notify", "s_sleep"} =>
              /\ mutex = "cyc1"
              /\ queue # <<>> /\ Back(qid) = Len(pushed)
              /\ popped' = popped /\ queue' = queue
              /\ currentPhase' = currentPhase /\ phaseHist' = phaseHist
              /\ \A w \in Waiters : pc'[w] \in {"r_wait", "r_pop"} => pc'[w] = pc[w]
              /\ \A w \in Waiters : ~InCritical(w)
      ]_vars

C19_Witness ==
    /\ pc["cyc1"] = "s_sleep" /\ mutex = "cyc1"
    /\ \E w \in TwoWaiters : pc[w] = "r_relock" /\ w \notin cond
    /\ queue # <<>>

\* C20: a Green observed by waitForGreen is current.  Whenever a waitForGreen
\* call returns, the Green it popped is the value pushed last (no Red was
\* pushed after it) and _currentPhase is green at the moment of the return.
C20_GreenIsCurrent ==
    [][ \A w \in Waiters :
           returns'[w] > returns[w] =>
              /\ popped'[Len(popped')].id = Len(pushed)
              /\ pushed[Len(pushed)] = green
              /\ currentPhase' = green
      ]_vars

====
